---------------------------- MODULE Spec2Model ----------------------------
(***************************************************************************)
(* Award attribution for two streaming catalogs (netflix, disney) against  *)
(* two award tables (oscars, golden_globe), as run by combined_analysis.py *)
(* with mark_oscar_awards (oscar_utils.py) and mark_golden_globes          *)
(* (golden_globe_utils.py).                                                *)
(*                                                                         *)
(* A Python str is a sequence of one-character strings.  A table cell that *)
(* may be missing (pandas NaN) is a record [na, str]; a boolean column     *)
(* that may be missing holds "True", "False" or "NaN".  A DataFrame is a   *)
(* sequence of rows, a row a record whose fields are the columns present.  *)
(* A float is the exact quotient num / den, or nan.  Characters are ASCII: *)
(* \s is space or tab, \d is 0-9.                                          *)
(***************************************************************************)
EXTENDS Integers, Sequences, FiniteSets, TLC

VARIABLES
    pc,            \* position in combined_analysis.py
    netflix,       \* catalog DataFrame
    disney,        \* catalog DataFrame
    oscars,        \* academy-award table
    golden_globe,  \* press-award table
    osets,         \* the four sets built by mark_oscar_awards
    gsets,         \* the four sets built by mark_golden_globes
    netflix_agg,   \* aggregates of combined_analysis.py for netflix
    disney_agg,    \* aggregates of combined_analysis.py for disney
    tstep,         \* position of the calls of clean_title on one title
    raw,           \* a title cell
    variant,       \* raw with a year marker added and letter case changed
    where,         \* where the year marker was added to variant
    key,           \* clean_title(raw)
    vkey,          \* clean_title(variant)
    key2           \* clean_title(key)

tvars == <<tstep, raw, variant, where, key, vkey, key2>>

vars == <<pc, netflix, disney, oscars, golden_globe, osets, gsets,
          netflix_agg, disney_agg, tvars>>

---------------------------------------------------------------------------
(* Characters *)

UpperLetters == <<"A","B","C","D","E","F","G","H","I","J","K","L","M",
                  "N","O","P","Q","R","S","T","U","V","W","X","Y","Z">>
LowerLetters == <<"a","b","c","d","e","f","g","h","i","j","k","l","m",
                  "n","o","p","q","r","s","t","u","v","w","x","y","z">>
Digits == {"0","1","2","3","4","5","6","7","8","9"}
Whitespace == {" ", "\t"}

Range(s) == {s[i] : i \in DOMAIN s}

\* str.lower() on one character
lower(c) ==
    IF \E i \in DOMAIN UpperLetters : UpperLetters[i] = c
    THEN LowerLetters[CHOOSE i \in DOMAIN UpperLetters : UpperLetters[i] = c]
    ELSE c

\* number of leading whitespace characters of s
RECURSIVE leading_ws(_)
leading_ws(s) ==
    IF s # <<>> /\ Head(s) \in Whitespace THEN 1 + leading_ws(Tail(s)) ELSE 0

\* length of the match of \s*\(\d{4}\) at the start of s, 0 when none
year_match(s) ==
    LET j == leading_ws(s) IN
    IF /\ Len(s) >= j + 6
       /\ s[j + 1] = "("
       /\ \A k \in 2..5 : s[j + k] \in Digits
       /\ s[j + 6] = ")"
    THEN j + 6 ELSE 0

\* re.sub(r'\s*\(\d{4}\)', '', s): leftmost non-overlapping matches removed
RECURSIVE sub_year(_)
sub_year(s) ==
    IF s = <<>> THEN <<>>
    ELSE LET m == year_match(s) IN
         IF m > 0 THEN sub_year(SubSeq(s, m + 1, Len(s)))
         ELSE <<Head(s)>> \o sub_year(Tail(s))

\* re.sub(r'[^a-z0-9\s]', '', s)
sub_punct(s) ==
    SelectSeq(s, LAMBDA c : c \in Range(LowerLetters) \cup Digits \cup Whitespace)

\* s.split(): the maximal runs of non-whitespace characters
RECURSIVE split(_)
split(s) ==
    LET t == SubSeq(s, leading_ws(s) + 1, Len(s)) IN
    IF t = <<>> THEN <<>>
    ELSE LET n == CHOOSE k \in 1..Len(t) :
                    /\ \A i \in 1..k : t[i] \notin Whitespace
                    /\ (k = Len(t) \/ t[k + 1] \in Whitespace)
         IN <<SubSeq(t, 1, n)>> \o split(SubSeq(t, n + 1, Len(t)))

\* ' '.join(words)
RECURSIVE join(_)
join(words) ==
    IF words = <<>> THEN <<>>
    ELSE IF Len(words) = 1 THEN words[1]
    ELSE words[1] \o <<" ">> \o join(Tail(words))

\* pd.isna on a cell
isna(cell) == cell.na

\* variant: whitespace collapsed before the punctuation is removed
clean_title_collapse_first(title) ==
    IF isna(title) THEN <<>>
    ELSE LET lowered == [i \in DOMAIN title.str |-> lower(title.str[i])]
         IN sub_punct(join(split(sub_year(lowered))))

\* variant: the punctuation removed before the year marker
clean_title_punct_first(title) ==
    IF isna(title) THEN <<>>
    ELSE LET lowered == [i \in DOMAIN title.str |-> lower(title.str[i])]
         IN join(split(sub_year(sub_punct(lowered))))

\* clean_title(title), the same function in both utility modules
clean_title(title) ==
    IF isna(title) THEN <<>>
    ELSE LET lowered == [i \in DOMAIN title.str |-> lower(title.str[i])]
         IN join(split(sub_punct(sub_year(lowered))))

---------------------------------------------------------------------------
(* Inputs *)

NaN == [na |-> TRUE, str |-> <<>>]
Str(s) == [na |-> FALSE, str |-> s]

\* titles a catalog row may carry
CatalogTitles ==
    { NaN,
      Str(<<>>),
      Str(<<" ">>),
      Str(<<"R","o","m","a"," ","(","2","0","1","8",")">>) }

\* titles an award row may carry
AwardTitles ==
    { NaN,
      Str(<<"R","O","M","A","!">>) }

OscarCategories == {"BEST PICTURE", "ANIMATED FEATURE FILM", "Best Picture"}
OscarWinnerValues == {"True", "False", "NaN"}

BEST_CONTENT_CATEGORIES == <<
    "Best Television Limited Series, Anthology Series, or Motion Picture Made for Television",
    "Best Television Series - Drama",
    "Best Television Series - Musical or Comedy",
    "Best Motion Picture - Drama",
    "Best Motion Picture - Musical or Comedy",
    "Best Motion Picture <U+00E2><U+20AC><U+201C> Non-English Language" >>
    \* the source writes the three characters U+00E2 U+20AC U+201C between
    \* "Picture " and " Non-English"; they are spelled out here in ASCII

GG_ANIMATED == "Best Motion Picture - Animated"

\* award labels a press-award row may carry: two of the configured "best"
\* labels, the animated label and one label that is not configured
GoldenGlobeAwards ==
    { BEST_CONTENT_CATEGORIES[2],
      BEST_CONTENT_CATEGORIES[6],
      GG_ANIMATED,
      "Best Motion Picture - Foreign Language" }
GoldenGlobeWinnerValues == {"True", "False", "NaN"}

\* column.apply(clean_title): clean_title of each cell value a column may hold
apply_clean_title == [t \in CatalogTitles \cup AwardTitles |-> clean_title(t)]

MaxCatalogRows == 2
MaxAwardRows == 2

Frames(rows, n) == UNION {[1..k -> rows] : k \in 0..n}

CatalogRows == [title : CatalogTitles]
OscarRows == [Film : AwardTitles, Category : OscarCategories,
              Winner : OscarWinnerValues]
GoldenGlobeRows == [title : AwardTitles, award : GoldenGlobeAwards,
                    winner : GoldenGlobeWinnerValues]

Undefined == <<>>

\* pd.read_csv of the four tables, combined_analysis.py
Init ==
    /\ pc = "loaded"
    /\ netflix \in Frames(CatalogRows, MaxCatalogRows)
    /\ disney \in Frames(CatalogRows, MaxCatalogRows)
    /\ Len(netflix) + Len(disney) <= MaxCatalogRows
    /\ oscars \in Frames(OscarRows, MaxAwardRows)
    /\ golden_globe \in Frames(GoldenGlobeRows, MaxAwardRows)
    /\ Len(oscars) + Len(golden_globe) <= MaxAwardRows
    /\ osets = Undefined
    /\ gsets = Undefined
    /\ netflix_agg = Undefined
    /\ disney_agg = Undefined
    /\ tstep = "idle"
    /\ raw = NaN
    /\ variant = NaN
    /\ where = "none"
    /\ key = Undefined
    /\ vkey = Undefined
    /\ key2 = Undefined

---------------------------------------------------------------------------
(* DataFrame helpers *)

\* df[mask]: the rows that satisfy P, in order
Filter(df, P(_)) == SelectSeq(df, P)

\* set(df[col]) for col = 'clean'
CleanSet(df) == {df[i].clean : i \in DOMAIN df}

\* df[col] = value(row) for each column of cols: columns are created or
\* overwritten, the others are kept
Assign(df, cols(_)) == [i \in DOMAIN df |-> cols(df[i]) @@ df[i]]

\* mask.sum(), df[mask].shape[0]
Count(df, P(_)) == Cardinality({i \in DOMAIN df : P(df[i])})

---------------------------------------------------------------------------
(* oscar_utils.mark_oscar_awards *)

\* oscars = oscars.copy(); oscars['clean'] = oscars['Film'].apply(clean_title)
oscars_clean(osc) == Assign(osc, LAMBDA r : [clean |-> apply_clean_title[r.Film]])

\* variant: the label compared without regard to letter case
best_picture_anycase(osc) ==
    Filter(oscars_clean(osc),
           LAMBDA r : r.Category \in {"BEST PICTURE", "Best Picture"})

best_picture(osc) ==
    Filter(oscars_clean(osc), LAMBDA r : r.Category = "BEST PICTURE")
animated(osc) ==
    Filter(oscars_clean(osc), LAMBDA r : r.Category = "ANIMATED FEATURE FILM")

\* df[df['Winner'] == True]
oscar_winner_rows(df) == Filter(df, LAMBDA r : r.Winner = "True")
\* variant: every row that is not a winner counts as a nominee
oscar_nominee_rows_not_winner(df) == Filter(df, LAMBDA r : r.Winner # "True")
\* variant: the press-award decoding, nominee = explicit False
oscar_nominee_rows_false(df) == Filter(df, LAMBDA r : r.Winner = "False")
\* df[df['Winner'].isna()]
oscar_nominee_rows(df) == Filter(df, LAMBDA r : r.Winner = "NaN")

oscar_sets(osc) ==
    [bp_winners    |-> CleanSet(oscar_winner_rows(best_picture(osc))),
     bp_nominees   |-> CleanSet(oscar_nominee_rows(best_picture(osc))),
     anim_winners  |-> CleanSet(oscar_winner_rows(animated(osc))),
     anim_nominees |-> CleanSet(oscar_nominee_rows(animated(osc)))]

\* variant: the frame is rebuilt from the title column, other columns dropped
oscar_flags_rebuild(df, sets) ==
    [i \in DOMAIN df |->
        LET k == apply_clean_title[df[i].title] IN
        [title        |-> df[i].title,
         clean        |-> k,
         bp_winner    |-> k \in sets.bp_winners,
         bp_nominee   |-> k \in sets.bp_nominees,
         anim_winner  |-> k \in sets.anim_winners,
         anim_nominee |-> k \in sets.anim_nominees]]

\* the body of "for df in [netflix, disney]"
oscar_flags(df, sets) ==
    LET cleaned == Assign(df, LAMBDA r : [clean |-> apply_clean_title[r.title]])
    IN Assign(cleaned, LAMBDA r :
           [bp_winner    |-> r.clean \in sets.bp_winners,
            bp_nominee   |-> r.clean \in sets.bp_nominees,
            anim_winner  |-> r.clean \in sets.anim_winners,
            anim_nominee |-> r.clean \in sets.anim_nominees])

\* variant: the caller's award table gets the clean column (no copy)
mark_oscar_awards_nocopy(next_pc) ==
    /\ pc' = next_pc
    /\ osets' = oscar_sets(oscars)
    /\ netflix' = oscar_flags(netflix, oscar_sets(oscars))
    /\ disney' = oscar_flags(disney, oscar_sets(oscars))
    /\ oscars' = oscars_clean(oscars)
    /\ UNCHANGED <<golden_globe, gsets, netflix_agg, disney_agg, tvars>>

mark_oscar_awards(next_pc) ==
    /\ pc' = next_pc
    /\ osets' = oscar_sets(oscars)
    /\ netflix' = oscar_flags(netflix, oscar_sets(oscars))
    /\ disney' = oscar_flags(disney, oscar_sets(oscars))
    /\ UNCHANGED <<oscars, golden_globe, gsets, netflix_agg, disney_agg, tvars>>

\* combined_analysis.py line 27
MarkOscarAwards ==
    /\ pc = "loaded"
    /\ mark_oscar_awards("oscar_marked")

---------------------------------------------------------------------------
(* golden_globe_utils.mark_golden_globes *)

gg_clean(gg) == Assign(gg, LAMBDA r : [clean |-> apply_clean_title[r.title]])

gg_best(gg) ==
    Filter(gg_clean(gg), LAMBDA r : r.award \in Range(BEST_CONTENT_CATEGORIES))
gg_anim(gg) ==
    Filter(gg_clean(gg), LAMBDA r : r.award = GG_ANIMATED)

\* df[df['winner'] == True]
gg_winner_rows(df) == Filter(df, LAMBDA r : r.winner = "True")
\* variant: every row that is not a winner counts as a nominee
gg_nominee_rows_not_winner(df) == Filter(df, LAMBDA r : r.winner # "True")
\* df[df['winner'] == False]
gg_nominee_rows(df) == Filter(df, LAMBDA r : r.winner = "False")

gg_sets(gg) ==
    [best_winners     |-> CleanSet(gg_winner_rows(gg_best(gg))),
     best_nominees    |-> CleanSet(gg_nominee_rows(gg_best(gg))),
     gg_anim_winners  |-> CleanSet(gg_winner_rows(gg_anim(gg))),
     gg_anim_nominees |-> CleanSet(gg_nominee_rows(gg_anim(gg)))]

\* variant: the animated nominee flag tested against the winners set
gg_flags_swapped(df, sets) ==
    LET cleaned == Assign(df, LAMBDA r : [clean |-> apply_clean_title[r.title]])
    IN Assign(cleaned, LAMBDA r :
           [gg_best_winner  |-> r.clean \in sets.best_winners,
            gg_best_nominee |-> r.clean \in sets.best_nominees,
            gg_anim_winner  |-> r.clean \in sets.gg_anim_winners,
            gg_anim_nominee |-> r.clean \in sets.gg_anim_winners])

gg_flags(df, sets) ==
    LET cleaned == Assign(df, LAMBDA r : [clean |-> apply_clean_title[r.title]])
    IN Assign(cleaned, LAMBDA r :
           [gg_best_winner  |-> r.clean \in sets.best_winners,
            gg_best_nominee |-> r.clean \in sets.best_nominees,
            gg_anim_winner  |-> r.clean \in sets.gg_anim_winners,
            gg_anim_nominee |-> r.clean \in sets.gg_anim_nominees])

mark_golden_globes(next_pc) ==
    /\ pc' = next_pc
    /\ gsets' = gg_sets(golden_globe)
    /\ netflix' = gg_flags(netflix, gg_sets(golden_globe))
    /\ disney' = gg_flags(disney, gg_sets(golden_globe))
    /\ UNCHANGED <<oscars, golden_globe, osets, netflix_agg, disney_agg, tvars>>

\* combined_analysis.py line 28
MarkGoldenGlobes ==
    /\ pc = "oscar_marked"
    /\ mark_golden_globes("gg_marked")

---------------------------------------------------------------------------
(* combined_analysis.py *)

\* variant: nominee flags count toward has_oscar
any_award_flags_nominees(df) ==
    LET with_oscar == Assign(df, LAMBDA r :
            [has_oscar |-> r.bp_winner \/ r.anim_winner \/ r.bp_nominee])
        with_gg == Assign(with_oscar, LAMBDA r :
            [has_gg |-> r.gg_best_winner \/ r.gg_anim_winner])
    IN Assign(with_gg, LAMBDA r : [has_any_award |-> r.has_oscar \/ r.has_gg])

\* lines 31-33 and 35-37
any_award_flags(df) ==
    LET with_oscar == Assign(df, LAMBDA r :
            [has_oscar |-> r.bp_winner \/ r.anim_winner])
        with_gg == Assign(with_oscar, LAMBDA r :
            [has_gg |-> r.gg_best_winner \/ r.gg_anim_winner])
    IN Assign(with_gg, LAMBDA r : [has_any_award |-> r.has_oscar \/ r.has_gg])

CreateFlags ==
    /\ pc = "gg_marked"
    /\ pc' = "flagged"
    /\ netflix' = any_award_flags(netflix)
    /\ disney' = any_award_flags(disney)
    /\ UNCHANGED <<oscars, golden_globe, osets, gsets, netflix_agg, disney_agg,
                   tvars>>

\* a float: the quotient num / den, or nan.  total and n are numpy int64 and
\* Python int: 0 / 0 is nan (with a RuntimeWarning), and nan * 1000 is nan
density(total, n) ==
    IF n = 0 THEN [nan |-> TRUE, num |-> 0, den |-> 0]
    ELSE [nan |-> FALSE, num |-> total * 1000, den |-> n]

\* variant: gg_only counts every row with has_gg
aggregates_gg_all(df) ==
    [both         |-> Count(df, LAMBDA r : r.has_oscar /\ r.has_gg),
     oscar_only   |-> Count(df, LAMBDA r : r.has_oscar /\ ~r.has_gg),
     gg_only      |-> Count(df, LAMBDA r : r.has_gg),
     total_awards |-> Count(df, LAMBDA r : r.has_any_award),
     density      |-> density(Count(df, LAMBDA r : r.has_any_award), Len(df)),
     volume       |-> Len(df)]

\* lines 54-63 and 77-81 for one catalog
aggregates(df) ==
    [both         |-> Count(df, LAMBDA r : r.has_oscar /\ r.has_gg),
     oscar_only   |-> Count(df, LAMBDA r : r.has_oscar /\ ~r.has_gg),
     gg_only      |-> Count(df, LAMBDA r : r.has_gg /\ ~r.has_oscar),
     total_awards |-> Count(df, LAMBDA r : r.has_any_award),
     density      |-> density(Count(df, LAMBDA r : r.has_any_award), Len(df)),
     volume       |-> Len(df)]

Aggregate ==
    /\ pc = "flagged"
    /\ pc' = "aggregated"
    /\ netflix_agg' = aggregates(netflix)
    /\ disney_agg' = aggregates(disney)
    /\ UNCHANGED <<netflix, disney, oscars, golden_globe, osets, gsets, tvars>>

\* a second run of either marking pass on the flagged catalogs
RerunMarkOscarAwards ==
    /\ pc = "aggregated"
    /\ mark_oscar_awards("rerun")

RerunMarkGoldenGlobes ==
    /\ pc = "aggregated"
    /\ mark_golden_globes("rerun")

\* the two marking passes called in the other order on the loaded tables
\* (both are module-level functions that take the catalogs and one award
\* table; columns of a catalog are read and written by label only)
MarkGoldenGlobesFirst ==
    /\ pc = "loaded"
    /\ mark_golden_globes("gg_first")

MarkOscarAwardsSecond ==
    /\ pc = "gg_first"
    /\ mark_oscar_awards("gg_then_oscar")

Next ==
    \/ MarkOscarAwards
    \/ MarkGoldenGlobes
    \/ CreateFlags
    \/ Aggregate
    \/ RerunMarkOscarAwards
    \/ RerunMarkGoldenGlobes
    \/ MarkGoldenGlobesFirst
    \/ MarkOscarAwardsSecond

Spec == Init /\ [][Next]_vars

---------------------------------------------------------------------------
(* clean_title on one title, on a variant of it and on its own result *)

MaxTitleLen == 3

\* characters of the titles: a letter in both cases, the two whitespace
\* characters, the parentheses, a digit and a punctuation mark
TitleChars == {"a", "A", " ", "\t", "(", ")", "1", "!"}

YearMarker == <<"(", "2", "0", "1", "9", ")">>

\* the title cells clean_title is called on: a missing value, every string
\* of at most MaxTitleLen characters, and three longer titles
TitleCells ==
    {NaN}
    \cup {Str(s) : s \in UNION {[1..n -> TitleChars] : n \in 0..MaxTitleLen}}
    \cup { Str(<<"R","o","m","a">>),
           Str(<<"U","p"," "," ","(","2","0","0","9",")">>),
           Str(<<"(","2","0","1","8",")">>) }

\* the other case of a letter
swapcase(c) ==
    IF \E i \in DOMAIN UpperLetters : UpperLetters[i] = c THEN lower(c)
    ELSE IF \E i \in DOMAIN LowerLetters : LowerLetters[i] = c
    THEN UpperLetters[CHOOSE i \in DOMAIN LowerLetters : LowerLetters[i] = c]
    ELSE c

LetterPositions(s) == {i \in DOMAIN s : swapcase(s[i]) # s[i]}

\* s with the whitespace character ws and the year marker inserted after its
\* first p characters
InsertMarker(s, p, ws) ==
    SubSeq(s, 1, p) \o <<ws>> \o YearMarker \o SubSeq(s, p + 1, Len(s))

\* what follows the first p characters of s
Position(s, p) ==
    IF p = Len(s) THEN "end"
    ELSE IF s[p + 1] \in Whitespace THEN "before_space"
    ELSE "before_char"

pipeline_idle ==
    /\ pc = "idle"
    /\ netflix = <<>> /\ disney = <<>> /\ oscars = <<>> /\ golden_globe = <<>>
    /\ osets = Undefined /\ gsets = Undefined
    /\ netflix_agg = Undefined /\ disney_agg = Undefined

pvars == <<pc, netflix, disney, oscars, golden_globe, osets, gsets,
           netflix_agg, disney_agg>>

InitTitle ==
    /\ pipeline_idle
    /\ tstep = "input"
    /\ raw \in TitleCells
    /\ variant = raw
    /\ where = "none"
    /\ key = Undefined
    /\ vkey = Undefined
    /\ key2 = Undefined

\* a whitespace-preceded year marker is added to the title
AddYearMarker ==
    /\ tstep = "input"
    /\ ~isna(variant)
    /\ \E p \in 0..Len(variant.str), ws \in Whitespace :
          /\ variant' = Str(InsertMarker(variant.str, p, ws))
          /\ where' = Position(variant.str, p)
    /\ tstep' = "marked"
    /\ UNCHANGED <<raw, key, vkey, key2, pvars>>

\* some letters of the title change case
ChangeCase ==
    /\ tstep \in {"input", "marked"}
    /\ ~isna(variant)
    /\ \E S \in SUBSET LetterPositions(variant.str) :
          /\ S # {}
          /\ variant' = Str([i \in DOMAIN variant.str |->
                               IF i \in S THEN swapcase(variant.str[i])
                               ELSE variant.str[i]])
    /\ tstep' = "cased"
    /\ UNCHANGED <<raw, where, key, vkey, key2, pvars>>

\* clean_title(raw) and clean_title(variant)
CleanTitle ==
    /\ tstep \in {"input", "marked", "cased"}
    /\ key' = clean_title(raw)
    /\ vkey' = clean_title(variant)
    /\ tstep' = "cleaned"
    /\ UNCHANGED <<raw, variant, where, key2, pvars>>

\* clean_title(clean_title(raw))
CleanTitleAgain ==
    /\ tstep = "cleaned"
    /\ key2' = clean_title(Str(key))
    /\ tstep' = "recleaned"
    /\ UNCHANGED <<raw, variant, where, key, vkey, pvars>>

NextTitle ==
    \/ AddYearMarker
    \/ ChangeCase
    \/ CleanTitle
    \/ CleanTitleAgain

SpecTitle == InitTitle /\ [][NextTitle]_vars

---------------------------------------------------------------------------
(* Vocabulary of the properties *)

CatalogRowsNow == Range(netflix) \cup Range(disney)

Marked ==
    pc \in {"gg_marked", "flagged", "aggregated", "rerun", "gg_then_oscar"}
OscarMarked == pc = "oscar_marked" \/ Marked
Flagged == pc \in {"flagged", "aggregated", "rerun"}

\* normalized titles of the academy-award rows of one category and outcome
OscarKeys(category, outcome) ==
    {apply_clean_title[oscars[i].Film] :
        i \in {j \in DOMAIN oscars : /\ oscars[j].Category = category
                                     /\ oscars[j].Winner = outcome}}

\* normalized titles of the press-award rows of a set of labels and outcome
GoldenGlobeKeys(labels, outcome) ==
    {apply_clean_title[golden_globe[i].title] :
        i \in {j \in DOMAIN golden_globe : /\ golden_globe[j].award \in labels
                                           /\ golden_globe[j].winner = outcome}}

BestLabels == Range(BEST_CONTENT_CATEGORIES)

Roma == <<"r","o","m","a">>

---------------------------------------------------------------------------
\* C1: once both marking passes have run, each of the eight flags of every
\* catalog row is true exactly when the row's normalized title belongs to
\* the set of normalized titles of the award rows of that source, category
\* and outcome.
C1_FlagsAreMembership ==
    Marked =>
        \A r \in CatalogRowsNow :
            LET k == apply_clean_title[r.title] IN
            /\ r.bp_winner = (k \in OscarKeys("BEST PICTURE", "True"))
            /\ r.bp_nominee = (k \in OscarKeys("BEST PICTURE", "NaN"))
            /\ r.anim_winner = (k \in OscarKeys("ANIMATED FEATURE FILM", "True"))
            /\ r.anim_nominee = (k \in OscarKeys("ANIMATED FEATURE FILM", "NaN"))
            /\ r.gg_best_winner = (k \in GoldenGlobeKeys(BestLabels, "True"))
            /\ r.gg_best_nominee = (k \in GoldenGlobeKeys(BestLabels, "False"))
            /\ r.gg_anim_winner = (k \in GoldenGlobeKeys({GG_ANIMATED}, "True"))
            /\ r.gg_anim_nominee = (k \in GoldenGlobeKeys({GG_ANIMATED}, "False"))

\* a marked catalog row that matches an academy winner and a press animated
\* nominee, and nothing else
C1_Witness ==
    /\ Marked
    /\ \E r \in CatalogRowsNow :
          /\ r.clean = Roma
          /\ r.bp_winner /\ r.gg_anim_nominee
          /\ ~r.bp_nominee /\ ~r.anim_winner /\ ~r.anim_nominee
          /\ ~r.gg_best_winner /\ ~r.gg_best_nominee /\ ~r.gg_anim_winner

---------------------------------------------------------------------------
\* C2: a catalog row whose normalized title is empty matches nothing: its
\* eight flags and has_oscar, has_gg, has_any_award are all false, whatever
\* the award tables hold.
C2_EmptyKeyMatchesNothing ==
    Flagged =>
        \A r \in CatalogRowsNow :
            apply_clean_title[r.title] = <<>> =>
                /\ ~r.bp_winner /\ ~r.bp_nominee
                /\ ~r.anim_winner /\ ~r.anim_nominee
                /\ ~r.gg_best_winner /\ ~r.gg_best_nominee
                /\ ~r.gg_anim_winner /\ ~r.gg_anim_nominee
                /\ ~r.has_oscar /\ ~r.has_gg /\ ~r.has_any_award

---------------------------------------------------------------------------
\* C3: has_oscar is bp_winner or anim_winner, has_gg is gg_best_winner or
\* gg_anim_winner, has_any_award is has_oscar or has_gg; nominee flags do
\* not contribute.
C3_DerivedFlags ==
    Flagged =>
        \A r \in CatalogRowsNow :
            /\ r.has_oscar = (r.bp_winner \/ r.anim_winner)
            /\ r.has_gg = (r.gg_best_winner \/ r.gg_anim_winner)
            /\ r.has_any_award = (r.has_oscar \/ r.has_gg)

\* a flagged row whose only true flags are nominee flags, of both sources
C3_Witness ==
    /\ Flagged
    /\ \E r \in CatalogRowsNow :
          /\ r.bp_nominee /\ r.gg_best_nominee
          /\ ~r.bp_winner /\ ~r.anim_winner
          /\ ~r.gg_best_winner /\ ~r.gg_anim_winner
          /\ ~r.has_oscar /\ ~r.has_gg /\ ~r.has_any_award

---------------------------------------------------------------------------
\* C4: per catalog, no row is in two of the groups both, oscar only and
\* gg only, and the three counts add up to total_awards.
InBoth(r) == r.has_oscar /\ r.has_gg
InOscarOnly(r) == r.has_oscar /\ ~r.has_gg
InGGOnly(r) == r.has_gg /\ ~r.has_oscar

OverlapPartition(df, agg) ==
    /\ \A i \in DOMAIN df :
          /\ ~(InBoth(df[i]) /\ InOscarOnly(df[i]))
          /\ ~(InBoth(df[i]) /\ InGGOnly(df[i]))
          /\ ~(InOscarOnly(df[i]) /\ InGGOnly(df[i]))
    /\ agg.both + agg.oscar_only + agg.gg_only = agg.total_awards
    /\ agg.total_awards = Cardinality({i \in DOMAIN df : df[i].has_any_award})

C4_OverlapPartition ==
    pc \in {"aggregated", "rerun"} =>
        /\ OverlapPartition(netflix, netflix_agg)
        /\ OverlapPartition(disney, disney_agg)

\* one catalog with an oscar-only row and a gg-only row, the other with a
\* row in both
C4_Witness ==
    /\ pc = "aggregated"
    /\ \/ netflix_agg.oscar_only = 1 /\ netflix_agg.gg_only = 1
       \/ netflix_agg.both = 1 /\ disney_agg.both = 1

---------------------------------------------------------------------------
\* C5: for a catalog with zero rows the density is a defined value, 0.
IsZero(d) == ~d.nan /\ d.num = 0

C5_EmptyCatalogDensityZero ==
    pc \in {"aggregated", "rerun"} =>
        /\ netflix_agg.volume = 0 => IsZero(netflix_agg.density)
        /\ disney_agg.volume = 0 => IsZero(disney_agg.density)

---------------------------------------------------------------------------
(* C6 *)

\* keys of winner rows are in W and not in N, keys of nominee rows are in N
\* and not in W
Exclusive(winnerKeys, nomineeKeys, W, N) ==
    /\ \A k \in winnerKeys : k \in W /\ k \notin N
    /\ \A k \in nomineeKeys : k \in N /\ k \notin W

\* keys of winner rows are in W, and in N exactly when a nominee row of the
\* category has the same key; the same with the roles exchanged
ExclusiveUnlessShared(winnerKeys, nomineeKeys, W, N) ==
    /\ \A k \in winnerKeys : k \in W /\ (k \in N <=> k \in nomineeKeys)
    /\ \A k \in nomineeKeys : k \in N /\ (k \in W <=> k \in winnerKeys)

\* C6 as stated: a row that satisfies its source's winner predicate has its
\* normalized title in its category's winners set and absent from the
\* nominees set, and a nominee row the other way round, also when several
\* rows normalize to one key.
C6_WinnersNomineesExclusive ==
    Marked =>
        /\ Exclusive(OscarKeys("BEST PICTURE", "True"),
                     OscarKeys("BEST PICTURE", "NaN"),
                     osets.bp_winners, osets.bp_nominees)
        /\ Exclusive(OscarKeys("ANIMATED FEATURE FILM", "True"),
                     OscarKeys("ANIMATED FEATURE FILM", "NaN"),
                     osets.anim_winners, osets.anim_nominees)
        /\ Exclusive(GoldenGlobeKeys(BestLabels, "True"),
                     GoldenGlobeKeys(BestLabels, "False"),
                     gsets.best_winners, gsets.best_nominees)
        /\ Exclusive(GoldenGlobeKeys({GG_ANIMATED}, "True"),
                     GoldenGlobeKeys({GG_ANIMATED}, "False"),
                     gsets.gg_anim_winners, gsets.gg_anim_nominees)

\* C6 amended: a winner row's normalized title is in the winners set, and
\* is absent from the nominees set unless a row of the same table mapped to
\* the same category, with the same normalized title, is a nominee row; a
\* nominee row likewise with the two sets exchanged.
C6_ExclusiveUnlessSharedKey ==
    Marked =>
        /\ ExclusiveUnlessShared(OscarKeys("BEST PICTURE", "True"),
                                 OscarKeys("BEST PICTURE", "NaN"),
                                 osets.bp_winners, osets.bp_nominees)
        /\ ExclusiveUnlessShared(OscarKeys("ANIMATED FEATURE FILM", "True"),
                                 OscarKeys("ANIMATED FEATURE FILM", "NaN"),
                                 osets.anim_winners, osets.anim_nominees)
        /\ ExclusiveUnlessShared(GoldenGlobeKeys(BestLabels, "True"),
                                 GoldenGlobeKeys(BestLabels, "False"),
                                 gsets.best_winners, gsets.best_nominees)
        /\ ExclusiveUnlessShared(GoldenGlobeKeys({GG_ANIMATED}, "True"),
                                 GoldenGlobeKeys({GG_ANIMATED}, "False"),
                                 gsets.gg_anim_winners, gsets.gg_anim_nominees)

\* a best-picture winner row and a best-picture nominee row with one key
C6_Witness ==
    /\ Marked
    /\ Len(oscars) = 2
    /\ oscars[1].Category = "BEST PICTURE" /\ oscars[1].Winner = "True"
    /\ oscars[2].Category = "BEST PICTURE" /\ oscars[2].Winner = "NaN"
    /\ apply_clean_title[oscars[1].Film] = Roma
    /\ apply_clean_title[oscars[2].Film] = Roma
    /\ Roma \in osets.bp_winners /\ Roma \in osets.bp_nominees

---------------------------------------------------------------------------
(* C7 *)

OscarConfigured == {"BEST PICTURE", "ANIMATED FEATURE FILM"}

\* the academy-award rows of the two categories whose key is k
OscarMatches(k) ==
    {i \in DOMAIN oscars : /\ oscars[i].Category \in OscarConfigured
                           /\ apply_clean_title[oscars[i].Film] = k}

\* C7: the academy-award winners sets hold the keys of the rows with Winner
\* true, the nominees sets those of the rows with Winner missing, a row with
\* a defined false Winner enters neither; a catalog title that matches only
\* defined-false rows has its four academy flags false.
C7_OscarDecoding ==
    OscarMarked =>
        /\ osets.bp_winners = OscarKeys("BEST PICTURE", "True")
        /\ osets.bp_nominees = OscarKeys("BEST PICTURE", "NaN")
        /\ osets.anim_winners = OscarKeys("ANIMATED FEATURE FILM", "True")
        /\ osets.anim_nominees = OscarKeys("ANIMATED FEATURE FILM", "NaN")
        /\ \A r \in CatalogRowsNow :
              (\A i \in OscarMatches(apply_clean_title[r.title]) :
                   oscars[i].Winner = "False")
              => /\ ~r.bp_winner /\ ~r.bp_nominee
                 /\ ~r.anim_winner /\ ~r.anim_nominee

\* a catalog row matched by two defined-false rows, one of each category
C7_Witness ==
    /\ OscarMarked
    /\ \E r \in CatalogRowsNow :
          /\ r.clean = Roma
          /\ \E i, j \in OscarMatches(Roma) :
                /\ oscars[i].Category = "BEST PICTURE"
                /\ oscars[j].Category = "ANIMATED FEATURE FILM"
                /\ oscars[i].Winner = "False" /\ oscars[j].Winner = "False"
          /\ ~r.bp_winner /\ ~r.bp_nominee /\ ~r.anim_winner /\ ~r.anim_nominee

---------------------------------------------------------------------------
(* C8 *)

\* C8: the press-award winners sets hold the keys of the rows with winner
\* true and the nominees sets those of the rows with winner false, so every
\* row of a mapped category whose winner field is present has its key in the
\* set of its outcome.
C8_GoldenGlobeDecoding ==
    Marked =>
        /\ gsets.best_winners = GoldenGlobeKeys(BestLabels, "True")
        /\ gsets.best_nominees = GoldenGlobeKeys(BestLabels, "False")
        /\ gsets.gg_anim_winners = GoldenGlobeKeys({GG_ANIMATED}, "True")
        /\ gsets.gg_anim_nominees = GoldenGlobeKeys({GG_ANIMATED}, "False")
        /\ \A i \in DOMAIN golden_globe :
              LET r == golden_globe[i]
                  k == apply_clean_title[r.title]
              IN /\ (r.award \in BestLabels /\ r.winner # "NaN") =>
                       \/ r.winner = "True" /\ k \in gsets.best_winners
                       \/ r.winner = "False" /\ k \in gsets.best_nominees
                 /\ (r.award = GG_ANIMATED /\ r.winner # "NaN") =>
                       \/ r.winner = "True" /\ k \in gsets.gg_anim_winners
                       \/ r.winner = "False" /\ k \in gsets.gg_anim_nominees

\* a best-series nominee row and an animated winner row
C8_Witness ==
    /\ Marked
    /\ \E i, j \in DOMAIN golden_globe :
          /\ golden_globe[i].award \in BestLabels
          /\ golden_globe[i].winner = "False"
          /\ golden_globe[j].award = GG_ANIMATED
          /\ golden_globe[j].winner = "True"
    /\ gsets.best_nominees # {} /\ gsets.best_winners = {}
    /\ gsets.gg_anim_winners # {} /\ gsets.gg_anim_nominees = {}

---------------------------------------------------------------------------
(* C9 *)

\* keys of the academy-award rows that carry the label
OscarLabelKeys(label) ==
    {apply_clean_title[oscars[i].Film] :
        i \in {j \in DOMAIN oscars : oscars[j].Category = label}}

\* keys of the press-award rows that carry one of the labels
GoldenGlobeLabelKeys(labels) ==
    {apply_clean_title[golden_globe[i].title] :
        i \in {j \in DOMAIN golden_globe : golden_globe[j].award \in labels}}

\* C9: a row whose label is not configured feeds no set, and each configured
\* label feeds only the sets of its own category: every key of a set, and
\* every catalog row with a flag set, is matched by an award row that
\* carries a label configured for that flag's category.
C9_OnlyConfiguredLabels ==
    Marked =>
        /\ osets.bp_winners \cup osets.bp_nominees
              \subseteq OscarLabelKeys("BEST PICTURE")
        /\ osets.anim_winners \cup osets.anim_nominees
              \subseteq OscarLabelKeys("ANIMATED FEATURE FILM")
        /\ gsets.best_winners \cup gsets.best_nominees
              \subseteq GoldenGlobeLabelKeys(BestLabels)
        /\ gsets.gg_anim_winners \cup gsets.gg_anim_nominees
              \subseteq GoldenGlobeLabelKeys({GG_ANIMATED})
        /\ \A r \in CatalogRowsNow :
              LET k == apply_clean_title[r.title] IN
              /\ (r.bp_winner \/ r.bp_nominee)
                    => k \in OscarLabelKeys("BEST PICTURE")
              /\ (r.anim_winner \/ r.anim_nominee)
                    => k \in OscarLabelKeys("ANIMATED FEATURE FILM")
              /\ (r.gg_best_winner \/ r.gg_best_nominee)
                    => k \in GoldenGlobeLabelKeys(BestLabels)
              /\ (r.gg_anim_winner \/ r.gg_anim_nominee)
                    => k \in GoldenGlobeLabelKeys({GG_ANIMATED})

\* a catalog row matched only by winner rows with labels that are not
\* configured, one in each table: all eight flags false
C9_Witness ==
    /\ Marked
    /\ Len(oscars) = 1 /\ Len(golden_globe) = 1
    /\ oscars[1].Category \notin OscarConfigured
    /\ oscars[1].Winner = "True"
    /\ golden_globe[1].award \notin BestLabels \cup {GG_ANIMATED}
    /\ golden_globe[1].winner = "True"
    /\ \E r \in CatalogRowsNow :
          /\ r.clean = apply_clean_title[oscars[1].Film]
          /\ r.clean = apply_clean_title[golden_globe[1].title]
          /\ ~r.bp_winner /\ ~r.bp_nominee /\ ~r.anim_winner /\ ~r.anim_nominee
          /\ ~r.gg_best_winner /\ ~r.gg_best_nominee
          /\ ~r.gg_anim_winner /\ ~r.gg_anim_nominee

---------------------------------------------------------------------------
(* C10 *)

\* C10: a second run of mark_oscar_awards or of mark_golden_globes on the
\* flagged catalogs, with the same award table, leaves every column of both
\* catalogs, the derived flags included, as it was.
C10_RerunIdempotent ==
    [][(pc = "aggregated" /\ pc' = "rerun")
          => (netflix' = netflix /\ disney' = disney)]_vars

\* a second run has happened on a catalog row that holds a winner flag of
\* each source
C10_Witness ==
    /\ pc = "rerun"
    /\ \E r \in CatalogRowsNow :
          r.bp_winner /\ r.gg_best_winner /\ r.has_any_award

---------------------------------------------------------------------------
(* C11 *)

KeyChars == Range(LowerLetters) \cup Digits \cup {" "}

\* a normalized key: lowercase letters, digits and single spaces, no space
\* at either end
IsKey(k) ==
    /\ k \in Seq(KeyChars)
    /\ k # <<>> => k[1] # " " /\ k[Len(k)] # " "
    /\ \A i \in 1..(Len(k) - 1) : ~(k[i] = " " /\ k[i + 1] = " ")

\* C11: clean_title yields a key for every string and for a missing value
\* (which gives the empty key), and clean_title of that key is the key.
C11_CleanTitleIdempotent ==
    /\ tstep \in {"cleaned", "recleaned"} =>
          /\ IsKey(key)
          /\ isna(raw) => key = <<>>
    /\ tstep = "recleaned" => key2 = key

\* a title with punctuation between whitespace, cleaned twice
C11_Witness ==
    /\ tstep = "recleaned"
    /\ raw = Str(<<" ", "!", " ">>) \/ raw = Str(<<"A", " ", "!">>)
    /\ key2 = key

---------------------------------------------------------------------------
(* C12 *)

\* C12 as stated: a title with a whitespace-preceded year marker added
\* anywhere, and with any change of letter case, has the key of the title.
C12_IgnoresCaseAndYearAnywhere ==
    tstep \in {"cleaned", "recleaned"} => vkey = key

\* C12 amended: the same, for a marker added at the end of the title or
\* right before a whitespace character of it.
C12_IgnoresCaseAndTrailingYear ==
    (tstep \in {"cleaned", "recleaned"} /\ where # "before_char")
        => vkey = key

\* 'Roma' and 'ROMA (2019)' have one key
C12_Witness ==
    /\ tstep = "cleaned"
    /\ raw = Str(<<"R","o","m","a">>)
    /\ variant = Str(<<"R","O","M","A"," ","(","2","0","1","9",")">>)
    /\ where = "end"
    /\ key = Roma /\ vkey = Roma

---------------------------------------------------------------------------
(* C13 *)

OscarColumns(r) == <<r.bp_winner, r.bp_nominee, r.anim_winner, r.anim_nominee>>
GoldenGlobeColumns(r) ==
    <<r.gg_best_winner, r.gg_best_nominee, r.gg_anim_winner, r.gg_anim_nominee>>

\* the catalog as loaded: its title column
TitleColumn(df) == [i \in DOMAIN df |-> [title |-> df[i].title]]

\* the loaded catalog after mark_oscar_awards, then mark_golden_globes
OscarThenGoldenGlobes(df) ==
    gg_flags(oscar_flags(TitleColumn(df), oscar_sets(oscars)),
             gg_sets(golden_globe))

\* the pass of this step leaves the columns cols of the other pass and the
\* clean column of every row as they were
Keeps(df, dfNext, cols(_)) ==
    /\ DOMAIN dfNext = DOMAIN df
    /\ \A i \in DOMAIN df : /\ cols(dfNext[i]) = cols(df[i])
                            /\ dfNext[i].clean = df[i].clean

====
